---- MODULE Spec2Model ----
(***************************************************************************)
(* TradePulse: trade execution on a personal portfolio                     *)
(* (RobustTradingService, routed at POST /trading/execute) and on a        *)
(* competition participant (CompetitionTradingService, routed at           *)
(* POST /competitions/{id}/trade), plus the unrouted TradingService.       *)
(*                                                                         *)
(* Money.  Every persisted amount is a Numeric(_, 2) column, so the        *)
(* database state holds whole cents.  In memory the services compute with  *)
(* more digits: the brokerage is gross * 0.0005 = gross / 2000, so every   *)
(* intermediate amount is a multiple of 1/2000 cent.  Such an amount is    *)
(* the record [c |-> cents, f |-> 2000ths of a cent], 0 <= f < 2000.       *)
(* Quotes are whole cents.  The competition service computes the same      *)
(* amounts in binary floating point; they are modelled at this resolution. *)
(***************************************************************************)
EXTENDS Integers, Sequences, FiniteSets, TLC

\* ---------------------------------------------------------------- bounds
MaxOrders == 3                          \* orders submitted in one behaviour
MaxInFlight == 2                        \* requests being served at once
CompetitionStartingBalance == 10000000  \* chosen by the competition's creator
MaxParticipants == 2                    \* chosen by the competition's creator
MaxClock == 2                           \* readings of the clock after 0
MaxPasses == 2                          \* revaluation passes started
MaxElapsed == 3                         \* advances of the wall clock

\* ------------------------------------------------------------- constants
PortfolioStartingBalance == 10000000    \* Portfolio.cash_balance default, cents
BrokerageDen == 2000                    \* fee = gross * 0.0005 = gross / 2000

Symbols == {"AAPL"}
LegacySymbols == {"AAPL", "XYZ"}
Quantities == {1, 2}
\* quotes in cents: 10.00 (the fee of one share is 0.005, half a cent) and
\* 60000.00 (fee 30.00; two such buys exceed the starting cash jointly)
Prices == {1000, 6000000}
NoQuote == 0
Requests == 1..MaxInFlight
Users == 1..3
Trader == 1              \* the user whose orders are observed
NoRow == [id |-> 0, symbol |-> "", quantity |-> 0, average_cost |-> 0]

\* ------------------------------------------------ decimal arithmetic
Dec(cents) == [c |-> cents, f |-> 0]

DecAdd(a, b) ==
  LET s == a.f + b.f
  IN  [c |-> a.c + b.c + (s \div BrokerageDen), f |-> s % BrokerageDen]

DecSub(a, b) ==
  LET s == a.f - b.f
  IN  IF s >= 0 THEN [c |-> a.c - b.c, f |-> s]
      ELSE [c |-> a.c - b.c - 1, f |-> s + BrokerageDen]

DecLess(a, b) == a.c < b.c \/ (a.c = b.c /\ a.f < b.f)

\* trade_value * Decimal('0.0005')
Brokerage(trade_value) ==
  [c |-> trade_value.c \div BrokerageDen, f |-> trade_value.c % BrokerageDen]

\* A Numeric(_, 2) column keeps two decimals: the value read back is the
\* nearest cent.  At an exact half cent the backends differ (PostgreSQL
\* numeric rounds half away from zero, SQLite stores a float that is
\* formatted with "%.2f"), so both neighbours are possible.
Numeric2(a) ==
  IF 2 * a.f < BrokerageDen THEN {a.c}
  ELSE IF 2 * a.f > BrokerageDen THEN {a.c + 1}
  ELSE {a.c, a.c + 1}

\* new_value / Decimal(str(new_quantity)) stored into Numeric(10, 2)
Numeric2Div(n, d) ==
  LET q == n \div d
      r == n % d
  IN  IF 2 * r < d THEN {q} ELSE IF 2 * r > d THEN {q + 1} ELSE {q, q + 1}

\* ------------------------------------------------------------------ state
VARIABLES
  live_data_service,   \* the price service: cache entry, clock, last answer
  joins,             \* per worker: the join_competition call it serves (the
                     \* user and the position in the function) or the
                     \* answer it gave
  scheduler,         \* the competition scheduler: idle between two passes,
                     \* or holding the writes of a pass not yet committed
  revaluation,       \* the background revaluation pass: its position in
                     \* update_portfolio_values, the rows it selected, the
                     \* writes of its open transaction, the quotes it got
                     \* and the number of passes started
  stored_values,     \* Portfolio.total_value of the trader's portfolio and,
                     \* per position id, the current_value last written by
                     \* a revaluation pass
  others,            \* rows of tables portfolios, positions and trades owned
                     \* by the other users, and the other user who placed
                     \* the last order
  cash_balance,      \* Portfolio.cash_balance of the personal portfolio, cents
  positions,         \* rows of table positions of that portfolio
  trades,            \* rows of table trades of that portfolio, in commit order
  next_position_id,  \* next primary key of table positions
  current_balance,   \* CompetitionParticipant.current_balance, cents
  competition_trades,\* rows of table competition_trades of that participant
  req,               \* per worker: the request it serves (its locals, the
                     \* cash it read and the number of trade rows committed
                     \* when it read it) or the response it gave
  submitted,         \* number of orders submitted so far
  account,           \* the account the observed orders are placed on
  now,               \* the wall clock read by datetime.now() / utcnow()
  competition        \* the competition: its status and, in the order they
                     \* joined, its participant rows (the trader's
                     \* current_balance is the variable of that name; the
                     \* other participants never trade and keep
                     \* starting_balance)

vars == <<cash_balance, positions, trades, next_position_id, current_balance,
          competition_trades, req, submitted, account, competition, now,
          others, stored_values, revaluation, scheduler, joins, live_data_service>>

db == <<cash_balance, positions, trades, next_position_id, current_balance,
        competition_trades>>

\* no other user has registered
NoOthers == [portfolios |-> {}, positions |-> {}, trades |-> <<>>, caller |-> 0]

\* Portfolio.total_value default (database.py line 65); no position has
\* been revalued
NoStoredValues == [total_value |-> PortfolioStartingBalance, positions |-> {}]

\* no UPDATE of table portfolios in the open transaction
NoTotal == 0 - 1

\* the revaluation task between two passes
NoRevaluation ==
  [pc |-> "idle", rows |-> {}, writes |-> {}, total |-> NoTotal,
   quotes |-> [symbol \in LegacySymbols |-> NoQuote], passes |-> 0]

\* the competition scheduler asleep between two passes
NoScheduler == [pc |-> "idle", status |-> "", ranked |-> <<>>]

\* RealPortfolioMetrics of a portfolio without trades (lines 146-159);
\* win_rate is profitable_trades / total_trades * 100
NoMetrics == [profitable_trades |-> 0, total_trades |-> 0]

\* no join_competition call
NoJoin == [pc |-> "idle", user_id |-> 0, result |-> ""]

\* get_live_price line 88: a cache entry is used for 10 seconds
CacheSeconds == 10
\* lengths of time, in seconds, that pass between two calls: less than the
\* life of a cache entry, and one day
Durations == {5, 86400}

\* LiveDataService.__init__ lines 65-75: empty price_cache and last_update.
\* now is datetime.now() in seconds, live_data the last answer of
\* get_live_price, age the time since the answer's quote was fetched,
\* cached whether the answer came from price_cache, source what the
\* external source answered to the last query, calls the number of calls
\* made by execute_trade, elapsed the number of advances of the clock
NoLiveData ==
  [price_cache |-> NoQuote, last_update |-> 0, now |-> 0,
   live_data |-> NoQuote, age |-> 0, cached |-> FALSE, source |-> NoQuote,
   calls |-> 0, elapsed |-> 0]

\* the result of a valuation: the amounts it returns, the positions it
\* lists, the positions it marks as lacking a price (no valuation has such a
\* mark), and the quotes the price service gave during it
NoValuation ==
  [cash_balance |-> 0, stock_value |-> 0, total_value |-> 0,
   positions |-> {}, stale |-> {}, quotes |-> <<>>]

\* CompetitionParticipant(...) of join_competition lines 155-160: rank is
\* NULL (0 here), status "active"
Participant(user_id) == [user_id |-> user_id, rank |-> 0, status |-> "active"]

Idle ==
  [pc |-> "idle", service |-> "", order_type |-> "", symbol |-> "",
   quantity |-> 0, price |-> NoQuote, source |-> "", cash |-> 0,
   seen |-> 0, position |-> NoRow, bought |-> 0, created_at |-> 0,
   result |-> "", wrote |-> FALSE, valuation |-> NoValuation,
   metrics |-> NoMetrics]

Init ==
  /\ cash_balance = PortfolioStartingBalance
  /\ positions = {}
  /\ trades = <<>>
  /\ next_position_id = 1
  /\ current_balance = CompetitionStartingBalance
  /\ competition_trades = <<>>
  /\ req = [r \in Requests |-> Idle]
  /\ submitted = 0
  /\ account \in {"portfolio", "participant"}
  /\ competition = [status |-> "active", participants |-> <<Participant(Trader)>>]
  /\ now = 0
  /\ live_data_service = NoLiveData
  /\ joins = [r \in Requests |-> NoJoin]
  /\ scheduler = NoScheduler
  /\ revaluation = NoRevaluation
  /\ stored_values = NoStoredValues
  /\ others = NoOthers

\* a worker is free before its first request and after it has responded;
\* a new request is taken by the first free worker
Free(r) ==
  /\ req[r].pc \in {"idle", "done"}
  /\ \A o \in Requests : o < r => req[o].pc \notin {"idle", "done"}

\* the funds check left out
InsufficientFundsUnchecked(cash, total_cost) == FALSE

\* execute_trade line 57, _execute_buy line 128, execute_competition_trade
\* line 50: the cash does not cover trade_value + fees
InsufficientFunds(cash, total_cost) == DecLess(Dec(cash), total_cost)

\* the shares check that only looks for the position row
InsufficientSharesNoQuantity(rows, quantity) == rows = {}

\* _execute_sell line 213: not position or position.quantity < quantity
InsufficientShares(rows, quantity) ==
  rows = {} \/ \E p \in rows : p.quantity < quantity

PositionRows(symbol) == {p \in positions : p.symbol = symbol}

\* the request has returned: its locals are gone; what remains is the
\* response and, of an executed order, the order and the cash it was
\* checked against
Done(request, result, wrote) ==
  IF result = "ok"
    THEN [request EXCEPT !.pc = "done", !.result = result, !.wrote = wrote,
                         !.position = NoRow, !.bought = 0]
    ELSE [Idle EXCEPT !.pc = "done", !.service = request.service,
                      !.order_type = request.order_type,
                      !.source = request.source,
                      !.result = result, !.wrote = wrote]

\* what the external price source answered: a quote or nothing
QuoteSource(quote) == IF quote = NoQuote THEN "none" ELSE "external"

\* a price service that answers with a made-up price when the source fails
get_live_price_simulated(quote) == IF quote = NoQuote THEN 17550 ELSE quote

\* live_data_service.get_live_price: the quote of the external source, or
\* None when the source fails
get_live_price(quote) == quote

\* timedelta.seconds: the seconds of a non-negative timedelta that remain
\* after its whole days
timedelta_seconds(delta) == delta % 86400

\* time passes
elapse(d) ==
  /\ live_data_service.elapsed < MaxElapsed
  /\ live_data_service' = [live_data_service EXCEPT
       !.now = @ + d, !.elapsed = @ + 1]
  /\ UNCHANGED <<db, req, submitted, account, joins, scheduler, revaluation,
                 stored_values, others, competition, now>>

\* execute_trade line 29 calling get_live_price lines 77-154 for the symbol
\* of the order.  Lines 86-89: the cache entry is returned when
\* (now - last_update).seconds < 10.  Otherwise the source is queried: a
\* quote is cached with last_update = now and returned (lines 143-148);
\* without a quote None is returned and the cache entry stays.
LiveDataService_get_live_price(quote) ==
  /\ account = "portfolio"
  /\ Free(1)
  /\ submitted < MaxOrders
  /\ live_data_service.calls = submitted
  /\ LET s == live_data_service
         delta == s.now - s.last_update
     IN  live_data_service' =
           IF s.price_cache # NoQuote
                /\ timedelta_seconds(delta) < CacheSeconds
             THEN [s EXCEPT !.live_data = s.price_cache, !.age = delta,
                            !.cached = TRUE, !.calls = @ + 1]
           ELSE IF quote = NoQuote
             THEN [s EXCEPT !.live_data = NoQuote, !.age = 0,
                            !.cached = FALSE, !.source = quote,
                            !.calls = @ + 1]
           ELSE [s EXCEPT !.price_cache = quote, !.last_update = s.now,
                          !.live_data = quote, !.age = 0,
                          !.cached = FALSE, !.source = quote,
                          !.calls = @ + 1]
  /\ UNCHANGED <<db, req, submitted, account, joins, scheduler, revaluation,
                 stored_values, others, competition, now>>

\* --------------------------------------------- POST /trading/execute
\* routes.execute_trade lines 24-34 and execute_trade lines 27-62.  The
\* route loads the caller's portfolio; the session keeps that object, so the
\* select of execute_trade returns it with the values read here.  The quote
\* and the funds check of a buy touch no table and are part of this step.
route_execute_trade(r, order_type, symbol, quantity, quote) ==
  /\ account = "portfolio"
  /\ Free(r)
  /\ submitted < MaxOrders
  /\ submitted' = submitted + 1
  /\ LET live_data == get_live_price(quote)
         trade_value == Dec(live_data * quantity)
         total_cost == DecAdd(trade_value, Brokerage(trade_value))
         request == [Idle EXCEPT !.service = "robust",
                       !.order_type = order_type, !.symbol = symbol,
                       !.quantity = quantity, !.price = live_data,
                       !.source = QuoteSource(quote)]
     IN  req' = [req EXCEPT ![r] =
           IF live_data = NoQuote
             THEN Done(request, "no_price", FALSE)
           ELSE IF order_type = "buy"
                   /\ InsufficientFunds(cash_balance, total_cost)
             THEN Done(request, "insufficient_funds", FALSE)
           ELSE [request EXCEPT !.pc = "position", !.cash = cash_balance,
                                !.seen = Len(trades)]]
  /\ UNCHANGED <<db, account, live_data_service, joins, scheduler, revaluation, stored_values, others, competition, now>>

\* _execute_buy lines 149-155 / _execute_sell lines 206-218: select the
\* position row of the symbol (scalar_one_or_none raises on two rows).
\* The Trade object gets created_at = datetime.now() in the same run of the
\* handler (lines 135-145, 226-236), before the flush and the commit.
execute_trade_position(r) ==
  /\ req[r].pc = "position"
  /\ req[r].service = "robust"
  /\ LET rows == PositionRows(req[r].symbol)
     IN  req' = [req EXCEPT ![r] =
           IF Cardinality(rows) > 1
             THEN Done(req[r], "error", FALSE)
           ELSE IF req[r].order_type = "sell"
                   /\ InsufficientShares(rows, req[r].quantity)
             THEN Done(req[r], "insufficient_shares", FALSE)
           ELSE [req[r] EXCEPT !.pc = "commit", !.created_at = now,
                   !.position = IF rows = {} THEN NoRow
                                ELSE CHOOSE p \in rows : TRUE]]
  /\ UNCHANGED <<db, submitted, account, live_data_service, joins, scheduler, revaluation, stored_values, others, competition, now>>

\* a row of table trades; fees is a Numeric(8, 2) column
TradeRow(r, fees) ==
  [symbol |-> req[r].symbol, trade_type |-> req[r].order_type,
   quantity |-> req[r].quantity, price |-> req[r].price,
   total_amount |-> req[r].price * req[r].quantity, fees |-> fees,
   created_at |-> req[r].created_at]

\* _execute_buy lines 157-180: the weighted average cost of the position
\* (an attribute whose new value equals the loaded one is not written)
BuyAverageCost(position, quantity, price) ==
  LET new_value == position.average_cost * position.quantity + price * quantity
      new_quantity == position.quantity + quantity
  IN  IF new_value = position.average_cost * new_quantity
        THEN {}
        ELSE Numeric2Div(new_value, new_quantity)

\* _execute_buy lines 119-192 and db.commit() of execute_trade line 76.
\* The UPDATE of a position row that another request deleted meanwhile
\* matches no row: the flush raises StaleDataError and execute_trade rolls
\* back (lines 109-116).
execute_buy_commit(r) ==
  /\ req[r].pc = "commit"
  /\ req[r].service = "robust"
  /\ req[r].order_type = "buy"
  /\ LET trade_value == Dec(req[r].price * req[r].quantity)
         fees == Brokerage(trade_value)
         total_cost == DecAdd(trade_value, fees)
         existing_position == req[r].position
         stored == {p \in positions : p.id = existing_position.id}
     IN  IF existing_position # NoRow /\ stored = {}
           THEN /\ req' = [req EXCEPT ![r] = Done(req[r], "error", FALSE)]
                /\ UNCHANGED db
           ELSE /\ \E fee \in Numeric2(fees) :
                     trades' = Append(trades, TradeRow(r, fee))
                /\ \E cash \in Numeric2(DecSub(Dec(req[r].cash), total_cost)) :
                     cash_balance' = cash
                /\ IF existing_position = NoRow
                     THEN /\ positions' = positions \cup
                               {[id |-> next_position_id,
                                 symbol |-> req[r].symbol,
                                 quantity |-> req[r].quantity,
                                 average_cost |-> req[r].price]}
                          /\ next_position_id' = next_position_id + 1
                     ELSE /\ \E row \in stored :
                             \E avg \in
                                 IF BuyAverageCost(existing_position,
                                        req[r].quantity, req[r].price) = {}
                                   THEN {row.average_cost}
                                   ELSE BuyAverageCost(existing_position,
                                          req[r].quantity, req[r].price) :
                               positions' = (positions \ stored) \cup
                                 {[row EXCEPT
                                    !.quantity = existing_position.quantity
                                                   + req[r].quantity,
                                    !.average_cost = avg]}
                          /\ UNCHANGED next_position_id
                /\ req' = [req EXCEPT ![r] = Done(req[r], "ok", TRUE)]
                /\ UNCHANGED <<current_balance, competition_trades>>
  /\ UNCHANGED <<submitted, account, live_data_service, joins, scheduler, revaluation, stored_values, others, competition, now>>

\* a sell that also rewrites the average cost with the execution price
SellPositionRepriced(row, quantity, price) ==
  [row EXCEPT !.quantity = quantity, !.average_cost = price]

\* _execute_sell lines 240-248, _execute_sell_order line 181: the row of a
\* position that keeps shares gets its new quantity and nothing else
SellPosition(row, quantity, price) == [row EXCEPT !.quantity = quantity]

\* _execute_sell lines 220-260 and db.commit() of execute_trade line 76.
\* A position sold to 0 is deleted (a DELETE that matches no row only
\* warns); otherwise its quantity is updated and its average cost kept.
execute_sell_commit(r) ==
  /\ req[r].pc = "commit"
  /\ req[r].service = "robust"
  /\ req[r].order_type = "sell"
  /\ LET trade_value == Dec(req[r].price * req[r].quantity)
         fees == Brokerage(trade_value)
         net_proceeds == DecSub(trade_value, fees)
         position == req[r].position
         quantity == position.quantity - req[r].quantity
         stored == {p \in positions : p.id = position.id}
     IN  IF quantity # 0 /\ stored = {}
           THEN /\ req' = [req EXCEPT ![r] = Done(req[r], "error", FALSE)]
                /\ UNCHANGED db
           ELSE /\ \E fee \in Numeric2(fees) :
                     trades' = Append(trades, TradeRow(r, fee))
                /\ \E cash \in Numeric2(DecAdd(Dec(req[r].cash), net_proceeds)) :
                     cash_balance' = cash
                /\ positions' =
                     IF quantity = 0 THEN positions \ stored
                     ELSE (positions \ stored) \cup
                            {SellPosition(row, quantity, req[r].price) : row \in stored}
                /\ req' = [req EXCEPT ![r] = Done(req[r], "ok", TRUE)]
                /\ UNCHANGED <<next_position_id, current_balance,
                               competition_trades>>
  /\ UNCHANGED <<submitted, account, live_data_service, joins, scheduler, revaluation, stored_values, others, competition, now>>

\* stock_service.get_stock_info: the quote of get_live_price or None
get_stock_info(quote) == get_live_price(quote)

\* a participant lookup that finds a row for every user
IsParticipantAnyone(user_id) == TRUE

\* competition_trading_routes lines 27-39, join_competition lines 128-139:
\* the user has a participant row of the competition
IsParticipant(user_id) ==
  \E i \in 1..Len(competition.participants) :
    competition.participants[i].user_id = user_id

\* ------------------------------------- POST /competitions/{id}/trade
\* competition_trading_routes lines 27-53 and execute_competition_trade
\* lines 30-58: the route loads the caller's participant row; the quote and
\* the cash check of a buy touch no table and are part of this step.
route_execute_competition_trade(r, order_type, symbol, quantity, quote) ==
  /\ account = "participant"
  /\ Free(r)
  /\ submitted < MaxOrders
  /\ submitted' = submitted + 1
  /\ LET stock_data == get_stock_info(quote)
         trade_value == Dec(stock_data * quantity)
         total_cost == DecAdd(trade_value, Brokerage(trade_value))
         request == [Idle EXCEPT !.service = "competition",
                       !.order_type = order_type, !.symbol = symbol,
                       !.quantity = quantity, !.price = stock_data,
                       !.source = QuoteSource(quote)]
     IN  req' = [req EXCEPT ![r] =
           IF ~IsParticipant(Trader)
             THEN Done(request, "not_participant", FALSE)
           ELSE IF competition.status # "active"
             THEN Done(request, "not_active", FALSE)
           ELSE IF stock_data = NoQuote
             THEN Done(request, "no_price", FALSE)
           ELSE IF order_type = "buy"
                   /\ InsufficientFunds(current_balance, total_cost)
             THEN Done(request, "insufficient_funds", FALSE)
           ELSE [request EXCEPT
                   !.pc = IF order_type = "buy" THEN "commit" ELSE "bought",
                   !.created_at = now,
                   !.cash = current_balance,
                   !.seen = Len(competition_trades)]]
  /\ UNCHANGED <<db, account, live_data_service, joins, scheduler, revaluation, stored_values, others, competition, now>>

RECURSIVE SumQuantity(_, _, _)
SumQuantity(rows, symbol, trade_type) ==
  IF rows = <<>> THEN 0
  ELSE (IF Head(rows).symbol = symbol /\ Head(rows).trade_type = trade_type
          THEN Head(rows).quantity ELSE 0)
       + SumQuantity(Tail(rows), symbol, trade_type)

\* _get_current_position lines 195-221, as one read of the table
CurrentPosition(symbol) ==
  SumQuantity(competition_trades, symbol, "buy")
    - SumQuantity(competition_trades, symbol, "sell")

\* _get_current_position lines 197-207: the first query, sum of buys
get_current_position_bought(r) ==
  /\ req[r].pc = "bought"
  /\ req' = [req EXCEPT ![r] =
       [req[r] EXCEPT !.pc = "sold",
          !.bought = SumQuantity(competition_trades, req[r].symbol, "buy")]]
  /\ UNCHANGED <<db, submitted, account, live_data_service, joins, scheduler, revaluation, stored_values, others, competition, now>>

\* _get_current_position lines 209-221: the second query, sum of sells,
\* and the shares check of execute_competition_trade lines 78-87
get_current_position_sold(r) ==
  /\ req[r].pc = "sold"
  /\ LET sell_quantity ==
           SumQuantity(competition_trades, req[r].symbol, "sell")
         current_position == req[r].bought - sell_quantity
     IN  req' = [req EXCEPT ![r] =
           IF current_position < req[r].quantity
             THEN Done(req[r], "insufficient_shares", FALSE)
             ELSE [req[r] EXCEPT !.pc = "commit", !.created_at = now]]
  /\ UNCHANGED <<db, submitted, account, live_data_service, joins, scheduler, revaluation, stored_values, others, competition, now>>

\* a row of table competition_trades (it has no fee column)
CompetitionTradeRow(r) ==
  [symbol |-> req[r].symbol, trade_type |-> req[r].order_type,
   quantity |-> req[r].quantity, price |-> req[r].price,
   total_amount |-> req[r].price * req[r].quantity,
   created_at |-> req[r].created_at]

\* execute_competition_trade lines 60-130: the balance computed from the
\* participant row loaded by the route, the trade row, db.commit(); then
\* _update_participant_value, which only reads tables and sets unmapped
\* attributes.  When it raises, the handler rolls back (nothing is pending)
\* and reports failure.
execute_competition_trade_commit(r, raised) ==
  /\ req[r].pc = "commit"
  /\ req[r].service = "competition"
  /\ LET trade_value == Dec(req[r].price * req[r].quantity)
         brokerage == Brokerage(trade_value)
         total_cost == DecAdd(trade_value, brokerage)
         net_proceeds == DecSub(trade_value, brokerage)
         balance == IF req[r].order_type = "buy"
                      THEN DecSub(Dec(req[r].cash), total_cost)
                      ELSE DecAdd(Dec(req[r].cash), net_proceeds)
     IN  \E stored \in Numeric2(balance) : current_balance' = stored
  /\ competition_trades' = Append(competition_trades, CompetitionTradeRow(r))
  /\ req' = [req EXCEPT ![r] =
       IF raised THEN Done(req[r], "error", TRUE) ELSE Done(req[r], "ok", TRUE)]
  /\ UNCHANGED <<cash_balance, positions, trades, next_position_id, submitted,
                 account, live_data_service, joins, scheduler, revaluation, stored_values, others, competition, now>>

\* ---------------------------------------------------------- valuation
\* the quotes of the price service during one valuation, per symbol
Quotes == [LegacySymbols -> Prices \cup {NoQuote}]

\* a valuation that prices every position at its average cost
MarketValueAtCost(rows, quotes) ==
  LET value[S \in SUBSET rows] ==
        IF S = {} THEN 0
        ELSE LET p == CHOOSE x \in S : TRUE
             IN  p.average_cost * p.quantity + value[S \ {p}]
  IN  value[rows]

\* get_portfolio_data lines 287-302, calculate_portfolio_value lines 43-68:
\* market value summed over the positions that got a price
MarketValue(rows, quotes) ==
  LET value[S \in SUBSET rows] ==
        IF S = {} THEN 0
        ELSE LET p == CHOOSE x \in S : TRUE
             IN  (IF get_live_price(quotes[p.symbol]) = NoQuote THEN 0
                  ELSE get_live_price(quotes[p.symbol]) * p.quantity)
                 + value[S \ {p}]
  IN  value[rows]

\* the entries of the result's positions list: a position without a price
\* gets no entry
PositionsData(rows, quotes) ==
  {[symbol |-> p.symbol, quantity |-> p.quantity,
    current_price |-> get_live_price(quotes[p.symbol])] :
     p \in {x \in rows : get_live_price(quotes[x.symbol]) # NoQuote}}

\* the response of a valuation request
Valued(service, quotes, cash, rows) ==
  Done([Idle EXCEPT !.service = service,
          !.valuation =
             [cash_balance |-> cash,
              stock_value |-> MarketValue(rows, quotes),
              total_value |-> cash + MarketValue(rows, quotes),
              positions |-> PositionsData(rows, quotes),
              stale |-> {},
              quotes |-> quotes]],
       "ok", FALSE)

\* RobustTradingService.get_portfolio_data lines 269-329
get_portfolio_data(r, quotes) ==
  /\ account = "portfolio"
  /\ Free(r)
  /\ req' = [req EXCEPT
       ![r] = Valued("get_portfolio_data", quotes, cash_balance, positions)]
  /\ UNCHANGED <<db, submitted, account, live_data_service, joins, scheduler, revaluation, stored_values, others, competition, now>>

\* PortfolioService.calculate_portfolio_value lines 21-84
calculate_portfolio_value(r, quotes) ==
  /\ account = "portfolio"
  /\ Free(r)
  /\ req' = [req EXCEPT
       ![r] = Valued("calculate_portfolio_value", quotes, cash_balance,
                     {p \in positions : p.quantity > 0})]
  /\ UNCHANGED <<db, submitted, account, live_data_service, joins, scheduler, revaluation, stored_values, others, competition, now>>

\* _get_all_positions lines 223-241 with the filter of line 147: the
\* holdings of the participant, as rows
CompetitionPositions ==
  {[id |-> 0, symbol |-> symbol, quantity |-> CurrentPosition(symbol),
    average_cost |-> 0] :
     symbol \in {x \in LegacySymbols : CurrentPosition(x) > 0}}

\* CompetitionTradingService.get_competition_portfolio lines 132-193
get_competition_portfolio(r, quotes) ==
  /\ account = "participant"
  /\ Free(r)
  /\ req' = [req EXCEPT
       ![r] = Valued("get_competition_portfolio", quotes, current_balance,
                     CompetitionPositions)]
  /\ UNCHANGED <<db, submitted, account, live_data_service, joins, scheduler, revaluation, stored_values, others, competition, now>>

\* ------------------------------------------------------------ metrics
\* calculate_real_portfolio_metrics lines 177-185: the sells of a symbol
\* whose price is above the mean of the prices of all buys of that symbol
\* (float(sell.price) > sum(prices) / len(buy_trades))
ProfitableTrades(rows, symbol) ==
  LET buy_trades == {i \in 1..Len(rows) :
                       rows[i].symbol = symbol /\ rows[i].trade_type = "buy"}
      sell_trades == {i \in 1..Len(rows) :
                        rows[i].symbol = symbol /\ rows[i].trade_type = "sell"}
      prices[S \in SUBSET buy_trades] ==
        IF S = {} THEN 0
        ELSE LET i == CHOOSE x \in S : TRUE
             IN  rows[i].price + prices[S \ {i}]
  IN  IF buy_trades = {} THEN 0
      ELSE Cardinality({i \in sell_trades :
             rows[i].price * Cardinality(buy_trades) > prices[buy_trades]})

\* calculate_real_portfolio_metrics lines 132-207: a read of table trades
calculate_real_portfolio_metrics(r) ==
  /\ account = "portfolio"
  /\ Free(r)
  /\ LET profitable[S \in SUBSET LegacySymbols] ==
           IF S = {} THEN 0
           ELSE LET symbol == CHOOSE x \in S : TRUE
                IN  ProfitableTrades(trades, symbol) + profitable[S \ {symbol}]
     IN  req' = [req EXCEPT ![r] =
           Done([Idle EXCEPT !.service = "metrics",
                   !.metrics = [profitable_trades |-> profitable[LegacySymbols],
                                total_trades |-> Len(trades)]],
                "ok", FALSE)]
  /\ UNCHANGED <<db, submitted, account, live_data_service, joins, competition, now, others,
                 stored_values, revaluation, scheduler>>

\* ------------------------------------- background revaluation
\* RobustLiveScheduler.start_live_updates lines 51-69 starts a pass every
\* 15 seconds; update_portfolio_values lines 186-202: the positions of the
\* portfolio with quantity > 0; a portfolio without positions is skipped
update_portfolio_values_select ==
  /\ revaluation.pc = "idle"
  /\ revaluation.passes < MaxPasses
  /\ LET rows == {p \in positions : p.quantity > 0}
     IN  revaluation' =
           [NoRevaluation EXCEPT
              !.pc = IF rows = {} THEN "commit" ELSE "fetch",
              !.rows = rows,
              !.passes = revaluation.passes + 1]
  /\ UNCHANGED <<db, req, submitted, account, live_data_service, joins, scheduler, competition, now, others,
                 stored_values>>

\* update_portfolio_values lines 204-260: the prices of the selected
\* symbols; with no price at all the portfolio is skipped; otherwise an
\* UPDATE of current_value for each selected position that has a price and,
\* when their sum is positive, an UPDATE of Portfolio.total_value with the
\* cash_balance selected now.  The rows updated stay locked by the open
\* transaction of the pass.
update_portfolio_values_update(quotes) ==
  /\ revaluation.pc = "fetch"
  /\ LET live == {p \in revaluation.rows :
                    get_live_price(quotes[p.symbol]) # NoQuote}
         total_market_value == MarketValue(revaluation.rows, quotes)
     IN  revaluation' =
           [revaluation EXCEPT
              !.pc = "commit",
              !.quotes = quotes,
              !.writes =
                 {[id |-> p.id,
                   current_value |->
                     get_live_price(quotes[p.symbol]) * p.quantity] :
                    p \in live},
              !.total = IF live # {} /\ total_market_value > 0
                          THEN cash_balance + total_market_value
                          ELSE NoTotal]
  /\ UNCHANGED <<db, req, submitted, account, live_data_service, joins, scheduler, competition, now, others,
                 stored_values>>

\* update_portfolio_values line 262: db.commit() makes the writes of the
\* pass visible and releases its locks; an UPDATE by Position.id of a row
\* deleted meanwhile has matched no row
update_portfolio_values_commit ==
  /\ revaluation.pc = "commit"
  /\ LET written == {w \in revaluation.writes :
                       \E p \in positions : p.id = w.id}
     IN  stored_values' =
           [total_value |-> IF revaluation.total = NoTotal
                              THEN stored_values.total_value
                              ELSE revaluation.total,
            positions |->
              {v \in stored_values.positions :
                 \A w \in written : w.id # v.id} \cup written]
  /\ revaluation' = [revaluation EXCEPT !.pc = "idle"]
  /\ UNCHANGED <<db, req, submitted, account, live_data_service, joins, scheduler, competition, now, others>>

\* the rows the open transaction of the pass has updated: no other
\* transaction can update them before the pass commits
LockedPositions ==
  IF revaluation.pc = "commit" THEN {w.id : w \in revaluation.writes} ELSE {}

PortfolioLocked == revaluation.pc = "commit" /\ revaluation.total # NoTotal

\* the flush of _execute_buy / _execute_sell updates the portfolio row and
\* the position row of the order: it waits while the pass holds one of them
Blocked(r) ==
  \/ PortfolioLocked
  \/ req[r].position.id \in LockedPositions

\* ------------------------------------------------- the other users
\* Portfolio.id of the trader's portfolio, the first one created
TraderPortfolio == 1

\* table portfolios
PortfolioTable ==
  {[id |-> TraderPortfolio, user_id |-> Trader, cash_balance |-> cash_balance]}
    \cup others.portfolios

\* table positions
PositionTable ==
  {[id |-> p.id, portfolio_id |-> TraderPortfolio, symbol |-> p.symbol,
    quantity |-> p.quantity, average_cost |-> p.average_cost] :
     p \in positions} \cup others.positions

\* AuthService.create_user lines 87-117: a new user gets a new portfolio
\* row; users.email and portfolios.user_id are unique
create_user(user_id) ==
  /\ \A p \in PortfolioTable : p.user_id # user_id
  /\ others' = [others EXCEPT
       !.portfolios = @ \cup
          {[id |-> Cardinality(PortfolioTable) + 1, user_id |-> user_id,
            cash_balance |-> PortfolioStartingBalance]}]
  /\ UNCHANGED <<db, req, submitted, account, live_data_service, joins, scheduler, revaluation, stored_values, competition, now>>

\* a lookup of the portfolio that ignores the caller
PortfolioOfAnyUser(user_id) == PortfolioTable

\* routes.execute_trade lines 25-28: select(Portfolio).where(
\* Portfolio.user_id == current_user.id)
PortfolioOfUser(user_id) == {p \in PortfolioTable : p.user_id = user_id}

\* routes.execute_trade lines 17-39 and RobustTradingService.execute_trade
\* lines 22-116 for an order of another user, run from start to end: the
\* rows are selected by Portfolio.user_id, Portfolio.id and
\* Position.portfolio_id, and the rows selected are the rows written
execute_trade_as(user_id, order_type, symbol, quantity, quote) ==
  /\ user_id # Trader
  /\ submitted < MaxOrders
  /\ submitted' = submitted + 1
  /\ PortfolioOfUser(user_id) # {}
  /\ LET portfolio == CHOOSE p \in PortfolioOfUser(user_id) : TRUE
         price == get_live_price(quote)
         trade_value == Dec(price * quantity)
         fees == Brokerage(trade_value)
         rows == {x \in PositionTable :
                    x.portfolio_id = portfolio.id /\ x.symbol = symbol}
         rejected ==
           \/ price = NoQuote
           \/ order_type = "buy" /\ InsufficientFunds(portfolio.cash_balance,
                                       DecAdd(trade_value, fees))
           \/ Cardinality(rows) > 1
           \/ order_type = "sell" /\ InsufficientShares(rows, quantity)
     IN  IF rejected
           THEN /\ others' = [others EXCEPT !.caller = user_id]
                /\ UNCHANGED db
           ELSE \E fee \in Numeric2(fees),
                   cash \in Numeric2(IF order_type = "buy"
                     THEN DecSub(Dec(portfolio.cash_balance),
                                 DecAdd(trade_value, fees))
                     ELSE DecAdd(Dec(portfolio.cash_balance),
                                 DecSub(trade_value, fees))),
                   avg \in IF order_type = "buy" /\ rows # {}
                             /\ BuyAverageCost(CHOOSE x \in rows : TRUE,
                                               quantity, price) # {}
                           THEN BuyAverageCost(CHOOSE x \in rows : TRUE,
                                               quantity, price)
                           ELSE {0} :
                  LET trade == [portfolio_id |-> portfolio.id,
                                user_id |-> portfolio.user_id,
                                symbol |-> symbol, trade_type |-> order_type,
                                quantity |-> quantity, price |-> price,
                                total_amount |-> price * quantity,
                                fees |-> fee, created_at |-> now]
                      portfolio_table ==
                        (PortfolioTable \ {portfolio}) \cup
                          {[portfolio EXCEPT !.cash_balance = cash]}
                      position_table ==
                        IF order_type = "buy" /\ rows = {}
                          THEN PositionTable \cup
                                 {[id |-> next_position_id,
                                   portfolio_id |-> portfolio.id,
                                   symbol |-> symbol, quantity |-> quantity,
                                   average_cost |-> price]}
                        ELSE IF order_type = "buy"
                          THEN (PositionTable \ rows) \cup
                                 {[x EXCEPT !.quantity = @ + quantity,
                                            !.average_cost =
                                               IF avg = 0 THEN @ ELSE avg] :
                                    x \in rows}
                        ELSE (PositionTable \ rows) \cup
                               {[x EXCEPT !.quantity = @ - quantity] :
                                  x \in {y \in rows : y.quantity > quantity}}
                      own(x) == x.portfolio_id = TraderPortfolio
                  IN  /\ cash_balance' =
                           (CHOOSE p \in portfolio_table :
                              p.id = TraderPortfolio).cash_balance
                      /\ positions' =
                           {[id |-> x.id, symbol |-> x.symbol,
                             quantity |-> x.quantity,
                             average_cost |-> x.average_cost] :
                              x \in {y \in position_table : own(y)}}
                      /\ trades' =
                           IF own(trade)
                             THEN Append(trades,
                                    [symbol |-> symbol,
                                     trade_type |-> order_type,
                                     quantity |-> quantity, price |-> price,
                                     total_amount |-> price * quantity,
                                     fees |-> fee, created_at |-> now])
                             ELSE trades
                      /\ next_position_id' =
                           IF order_type = "buy" /\ rows = {}
                             THEN next_position_id + 1 ELSE next_position_id
                      /\ others' =
                           [portfolios |->
                              {p \in portfolio_table : p.id # TraderPortfolio},
                            positions |->
                              {x \in position_table : ~own(x)},
                            trades |-> IF own(trade) THEN others.trades
                                       ELSE Append(others.trades, trade),
                            caller |-> user_id]
                      /\ UNCHANGED <<current_balance, competition_trades>>
  /\ UNCHANGED <<req, account, live_data_service, joins, scheduler, revaluation, stored_values, competition, now>>

\* --------------------------------------------------------- the clock
\* time passes between two reads of the clock
tick ==
  /\ now < MaxClock
  /\ now' = now + 1
  /\ UNCHANGED <<db, req, submitted, account, live_data_service, joins, scheduler, revaluation, stored_values, others, competition>>

\* ------------------------------------------ POST /auth/reset-portfolio
\* routes.reset_portfolio lines 132-146 and AuthService.reset_portfolio
\* lines 229-265.  confirmation: the request carries the confirmation
\* message and flag.  loaded: user.portfolio, a lazily loaded relationship
\* read in an AsyncSession, either yields the portfolio or raises.  Only
\* columns of the portfolio row are assigned; no position row is touched.
reset_portfolio(r, confirmation, loaded) ==
  /\ account = "portfolio"
  /\ Free(r)
  /\ submitted < MaxOrders
  /\ submitted' = submitted + 1
  /\ LET request == [Idle EXCEPT !.service = "reset"]
     IN  IF ~confirmation
           THEN /\ req' = [req EXCEPT
                     ![r] = Done(request, "not_confirmed", FALSE)]
                /\ UNCHANGED cash_balance
         ELSE IF ~loaded
           THEN /\ req' = [req EXCEPT ![r] = Done(request, "error", FALSE)]
                /\ UNCHANGED cash_balance
         ELSE /\ req' = [req EXCEPT ![r] = Done(request, "ok", TRUE)]
              /\ cash_balance' = PortfolioStartingBalance
  /\ UNCHANGED <<positions, trades, next_position_id, current_balance,
                 competition_trades, account, live_data_service, joins, scheduler, revaluation, stored_values, others, competition, now>>

\* ------------------------------------------- competition life cycle
\* join_competition lines 110-174, run from start to end
join_competition(user_id) ==
  /\ competition.status \in {"upcoming", "active"}
  /\ ~IsParticipant(user_id)
  /\ Len(competition.participants) < MaxParticipants
  /\ competition' = [competition EXCEPT
       !.participants = Append(@, Participant(user_id))]
  /\ current_balance' = IF user_id = Trader THEN CompetitionStartingBalance
                        ELSE current_balance
  /\ UNCHANGED <<cash_balance, positions, trades, next_position_id,
                 competition_trades, req, submitted, account, live_data_service, joins, scheduler, revaluation, stored_values, others, now>>

\* join_competition lines 113-153: the competition, the participant row of
\* the user and the number of participant rows are selected; the call
\* answers, or goes on to insert
join_competition_check(j, user_id) ==
  /\ joins[j].pc = "idle"
  /\ joins' = [joins EXCEPT ![j] =
       IF competition.status \notin {"upcoming", "active"}
         THEN [pc |-> "done", user_id |-> user_id, result |-> "not_joinable"]
       ELSE IF IsParticipant(user_id)
         THEN [pc |-> "done", user_id |-> user_id, result |-> "already_joined"]
       ELSE IF Len(competition.participants) >= MaxParticipants
         THEN [pc |-> "done", user_id |-> user_id, result |-> "full"]
       ELSE [pc |-> "insert", user_id |-> user_id, result |-> ""]]
  /\ UNCHANGED <<db, req, submitted, account, live_data_service, competition, now, others,
                 stored_values, revaluation, scheduler>>

\* join_competition lines 155-169: the participant row is inserted with
\* starting_balance and current_balance of the competition, and committed.
\* The balance of a participant row that exists already is not touched.
join_competition_insert(j) ==
  /\ joins[j].pc = "insert"
  /\ competition' = [competition EXCEPT
       !.participants = Append(@, Participant(joins[j].user_id))]
  /\ current_balance' =
       IF joins[j].user_id = Trader /\ ~IsParticipant(Trader)
         THEN CompetitionStartingBalance ELSE current_balance
  /\ joins' = [joins EXCEPT ![j] =
       [pc |-> "done", user_id |-> joins[j].user_id,
        result |-> "newly_joined"]]
  /\ UNCHANGED <<cash_balance, positions, trades, next_position_id,
                 competition_trades, req, submitted, account, live_data_service, now, others,
                 stored_values, revaluation, scheduler>>

\* float(participant.current_balance) of _calculate_final_rankings line 119
ParticipantBalance(user_id) ==
  IF user_id = Trader THEN current_balance ELSE CompetitionStartingBalance

\* the orders in which a select without ORDER BY can return n rows
RowOrders(n) ==
  {scan \in [1..n -> 1..n] : \A i, j \in 1..n : scan[i] = scan[j] => i = j}

\* _calculate_final_rankings lines 116-127: the rows, in the order the
\* select returned them (scan[k] is the k-th row returned), are sorted by
\* balance, descending, with the stable list.sort, and numbered from 1
FinalRank(rows, scan, i) ==
  LET n == Len(rows)
      at(x) == CHOOSE k \in 1..n : scan[k] = x
      value(x) == ParticipantBalance(rows[x].user_id)
  IN  1 + Cardinality({j \in 1..n : value(j) > value(i)})
        + Cardinality({j \in 1..n : value(j) = value(i) /\ at(j) < at(i)})

\* CompetitionScheduler._process_competitions lines 55-81 for an active
\* competition whose end_date has passed: _end_competition lines 91-101
\* and _calculate_final_rankings lines 103-135, then db.commit()
process_competitions(scan) ==
  /\ competition.status = "active"
  /\ scan \in RowOrders(Len(competition.participants))
  /\ competition' =
       [status |-> "completed",
        participants |->
          [i \in 1..Len(competition.participants) |->
             [competition.participants[i] EXCEPT
                !.rank = FinalRank(competition.participants, scan, i),
                !.status = "completed"]]]
  /\ UNCHANGED <<db, req, submitted, account, live_data_service, joins, scheduler, revaluation, stored_values, others, now>>

\* create_competition lines 32-33: start_date is the time of creation,
\* end_date is start_date plus the duration
start_date == 0
end_date == 1

\* a scheduler that reopens a competition whose end_date has passed
NextStatusReopening(status, time) ==
  IF status = "upcoming" /\ start_date <= time THEN "active"
  ELSE IF status = "active" /\ end_date <= time THEN "upcoming"
  ELSE status

\* _process_competitions lines 69-75: the status a competition gets in a
\* pass at the given time
NextStatus(status, time) ==
  IF status = "upcoming" /\ start_date <= time THEN "active"
  ELSE IF status = "active" /\ end_date <= time THEN "completed"
  ELSE status

\* _process_competitions lines 55-75 with _start_competition lines 83-89,
\* _end_competition lines 91-101 and _calculate_final_rankings lines
\* 103-135: the pass selects the competition and, to end it, its
\* participant rows, and assigns status and ranks to the objects of its
\* session; a pass that assigns nothing is no step
CompetitionScheduler_process_competitions(scan) ==
  /\ scheduler.pc = "idle"
  /\ competition.status \in {"upcoming", "active"}
  /\ NextStatus(competition.status, now) # competition.status
  /\ scan \in RowOrders(Len(competition.participants))
  /\ scheduler' =
       [pc |-> "commit",
        status |-> NextStatus(competition.status, now),
        ranked |->
          IF NextStatus(competition.status, now) = "completed"
            THEN [i \in 1..Len(competition.participants) |->
                    FinalRank(competition.participants, scan, i)]
            ELSE <<>>]
  /\ UNCHANGED <<db, req, submitted, account, live_data_service, joins, competition, now, others,
                 stored_values, revaluation>>

\* _process_competitions line 77: db.commit() writes the status and, for
\* the participant rows the pass selected, rank and status "completed"
CompetitionScheduler_commit ==
  /\ scheduler.pc = "commit"
  /\ competition' =
       [competition EXCEPT
          !.status = scheduler.status,
          !.participants =
             [i \in 1..Len(competition.participants) |->
                IF i <= Len(scheduler.ranked)
                  THEN [competition.participants[i] EXCEPT
                          !.rank = scheduler.ranked[i],
                          !.status = "completed"]
                  ELSE competition.participants[i]]]
  /\ scheduler' = NoScheduler
  /\ UNCHANGED <<db, req, submitted, account, live_data_service, joins, now, others, stored_values,
                 revaluation>>

\* ------------------------------- TradingService (trading/services.py)
NoStockInfo == [price |-> NoQuote, source |-> "none"]
\* an entry of LiveDataScheduler.live_cache: filled by
\* LiveStockService.fetch_live_price, from an external API or, when all
\* APIs fail, by _generate_realistic_price ('Simulated Live Data')
CachedPrices ==
  {NoStockInfo} \cup [price : Prices, source : {"external", "simulated"}]

\* StockService._get_fallback_stock_info: a price made up from base_data
\* for the eight symbols it lists (base_price of AAPL, before the +-2%)
FallbackStockInfo(symbol) ==
  IF symbol = "AAPL" THEN [price |-> 17543, source |-> "fallback"]
  ELSE NoStockInfo

\* StockService.get_stock_info: the scheduler's cache, else the Alpha
\* Vantage quote, else the fallback
StockService_get_stock_info(symbol, cached, quote) ==
  IF cached.price # NoQuote THEN cached
  ELSE IF quote # NoQuote THEN [price |-> quote, source |-> "external"]
  ELSE FallbackStockInfo(symbol)

\* TradingService.execute_trade with _execute_buy_order and
\* _execute_sell_order; it is not routed and is modelled as one step
TradingService_execute_trade(order_type, symbol, quantity, cached, quote) ==
  /\ account = "portfolio"
  /\ Free(1)
  /\ submitted < MaxOrders
  /\ submitted' = submitted + 1
  /\ LET stock_info == StockService_get_stock_info(symbol, cached, quote)
         current_price == stock_info.price
         trade_value == Dec(current_price * quantity)
         fees == Brokerage(trade_value)
         total_cost == DecAdd(trade_value, fees)
         net_proceeds == DecSub(trade_value, fees)
         rows == PositionRows(symbol)
         request == [Idle EXCEPT !.service = "trading",
                       !.order_type = order_type, !.symbol = symbol,
                       !.quantity = quantity, !.price = current_price,
                       !.source = stock_info.source, !.cash = cash_balance,
                       !.seen = Len(trades)]
         failed(result) ==
           /\ req' = [req EXCEPT ![1] = Done(request, result, FALSE)]
           /\ UNCHANGED db
     IN  IF current_price = NoQuote THEN failed("no_price")
         ELSE IF order_type = "buy" /\ InsufficientFunds(cash_balance, total_cost)
           THEN failed("insufficient_funds")
         ELSE IF Cardinality(rows) > 1 THEN failed("error")
         ELSE IF order_type = "sell" /\ InsufficientShares(rows, quantity)
           THEN failed("insufficient_shares")
         ELSE
           /\ \E fee \in Numeric2(fees) :
                trades' = Append(trades,
                  [symbol |-> symbol, trade_type |-> order_type,
                   quantity |-> quantity, price |-> current_price,
                   total_amount |-> current_price * quantity, fees |-> fee,
                   created_at |-> now])
           /\ \E cash \in Numeric2(IF order_type = "buy"
                                    THEN DecSub(Dec(cash_balance), total_cost)
                                    ELSE DecAdd(Dec(cash_balance), net_proceeds)) :
                cash_balance' = cash
           /\ IF order_type = "buy" /\ rows = {}
                THEN /\ positions' = positions \cup
                          {[id |-> next_position_id, symbol |-> symbol,
                            quantity |-> quantity,
                            average_cost |-> current_price]}
                     /\ next_position_id' = next_position_id + 1
              ELSE IF order_type = "buy"
                THEN /\ \E position \in rows :
                          \E avg \in
                              IF BuyAverageCost(position, quantity,
                                                current_price) = {}
                                THEN {position.average_cost}
                                ELSE BuyAverageCost(position, quantity,
                                                    current_price) :
                            positions' = (positions \ rows) \cup
                              {[position EXCEPT
                                 !.quantity = position.quantity + quantity,
                                 !.average_cost = avg]}
                     /\ UNCHANGED next_position_id
              ELSE /\ positions' = (positions \ rows) \cup
                          {SellPosition(position, position.quantity - quantity,
                                        current_price) :
                             position \in {x \in rows : x.quantity > quantity}}
                   /\ UNCHANGED next_position_id
           /\ req' = [req EXCEPT ![1] = Done(request, "ok", TRUE)]
           /\ UNCHANGED <<current_balance, competition_trades>>
  /\ UNCHANGED <<account, live_data_service, joins, scheduler, revaluation, stored_values, others, competition, now>>

\* ----------------------------------- TradingEngine (trading/engine.py)
\* execute_buy_order line 33, execute_sell_order line 142: no fee
TradingEngineFees(trade_value) == Dec(0)

\* TradingEngine.execute_buy_order lines 19-112.  The Trade it builds has
\* no portfolio_id, a NOT NULL column: the autoflush before the UPDATE of
\* line 62 raises IntegrityError and nothing is committed.
TradingEngine_execute_buy_order(symbol, quantity, cached, quote) ==
  /\ account = "portfolio"
  /\ Free(1)
  /\ submitted < MaxOrders
  /\ submitted' = submitted + 1
  /\ LET stock_info == StockService_get_stock_info(symbol, cached, quote)
         total_cost == Dec(stock_info.price * quantity)
         total_amount == DecAdd(total_cost, TradingEngineFees(total_cost))
         request == [Idle EXCEPT !.service = "engine", !.order_type = "buy",
                       !.symbol = symbol, !.quantity = quantity,
                       !.price = stock_info.price,
                       !.source = stock_info.source]
     IN  req' = [req EXCEPT ![1] =
           IF stock_info.price = NoQuote THEN Done(request, "no_price", FALSE)
           ELSE IF InsufficientFunds(cash_balance, total_amount)
             THEN Done(request, "insufficient_funds", FALSE)
           ELSE Done(request, "error", FALSE)]
  /\ UNCHANGED <<db, account, live_data_service, joins, scheduler, revaluation, stored_values, others, competition, now>>

\* TradingEngine.execute_sell_order lines 115-198.  It looks the position
\* up by Position.user_id, which the executors that create positions leave
\* NULL: it finds no row and answers insufficient shares.
TradingEngine_execute_sell_order(symbol, quantity, cached, quote) ==
  /\ account = "portfolio"
  /\ Free(1)
  /\ submitted < MaxOrders
  /\ submitted' = submitted + 1
  /\ LET stock_info == StockService_get_stock_info(symbol, cached, quote)
         request == [Idle EXCEPT !.service = "engine", !.order_type = "sell",
                       !.symbol = symbol, !.quantity = quantity,
                       !.price = stock_info.price,
                       !.source = stock_info.source]
     IN  req' = [req EXCEPT ![1] =
           IF stock_info.price = NoQuote THEN Done(request, "no_price", FALSE)
           ELSE Done(request, "insufficient_shares", FALSE)]
  /\ UNCHANGED <<db, account, live_data_service, joins, scheduler, revaluation, stored_values, others, competition, now>>

\* TradingEngine.update_portfolio_values lines 200-247, called by
\* GET /dashboard lines 45-46: the positions selected by Position.user_id;
\* a position with a price raises (average_price is None for the rows of
\* the routed service) and nothing is written; otherwise total_value
\* becomes the cash balance plus the value of no position
TradingEngine_update_portfolio_values(cached, quotes) ==
  /\ account = "portfolio"
  /\ revaluation.pc = "idle"
  /\ \A p \in positions :
       StockService_get_stock_info(p.symbol, cached, quotes[p.symbol]).price
         = NoQuote
  /\ stored_values' = [stored_values EXCEPT !.total_value = cash_balance]
  /\ UNCHANGED <<db, req, submitted, account, live_data_service, joins, scheduler, competition, now, others,
                 revaluation>>

\* ------------------------- one order given to both routed executors
\* RobustTradingService.execute_trade run alone from start to end: the
\* response of the order in the present state of the portfolio
RobustResult(order_type, symbol, quantity, quote) ==
  LET live_data == get_live_price(quote)
      trade_value == Dec(live_data * quantity)
      total_cost == DecAdd(trade_value, Brokerage(trade_value))
      rows == PositionRows(symbol)
  IN  IF live_data = NoQuote THEN "no_price"
      ELSE IF order_type = "buy" /\ InsufficientFunds(cash_balance, total_cost)
        THEN "insufficient_funds"
      ELSE IF Cardinality(rows) > 1 THEN "error"
      ELSE IF order_type = "sell" /\ InsufficientShares(rows, quantity)
        THEN "insufficient_shares"
      ELSE "ok"

\* ... and what it commits (_execute_buy lines 135-185, _execute_sell
\* lines 220-252, db.commit() line 76)
RobustEffect(order_type, symbol, quantity, quote) ==
  LET price == get_live_price(quote)
      trade_value == Dec(price * quantity)
      fees == Brokerage(trade_value)
      rows == PositionRows(symbol)
  IN  IF RobustResult(order_type, symbol, quantity, quote) # "ok"
        THEN UNCHANGED <<cash_balance, positions, trades, next_position_id>>
        ELSE
          /\ \E fee \in Numeric2(fees) :
               trades' = Append(trades,
                 [symbol |-> symbol, trade_type |-> order_type,
                  quantity |-> quantity, price |-> price,
                  total_amount |-> price * quantity, fees |-> fee,
                  created_at |-> now])
          /\ \E cash \in Numeric2(IF order_type = "buy"
                   THEN DecSub(Dec(cash_balance), DecAdd(trade_value, fees))
                   ELSE DecAdd(Dec(cash_balance), DecSub(trade_value, fees))) :
               cash_balance' = cash
          /\ IF order_type = "buy" /\ rows = {}
               THEN /\ positions' = positions \cup
                         {[id |-> next_position_id, symbol |-> symbol,
                           quantity |-> quantity, average_cost |-> price]}
                    /\ next_position_id' = next_position_id + 1
             ELSE IF order_type = "buy"
               THEN /\ \E position \in rows :
                         \E avg \in
                             IF BuyAverageCost(position, quantity, price) = {}
                               THEN {position.average_cost}
                               ELSE BuyAverageCost(position, quantity, price) :
                           positions' = (positions \ rows) \cup
                             {[position EXCEPT
                                !.quantity = position.quantity + quantity,
                                !.average_cost = avg]}
                    /\ UNCHANGED next_position_id
             ELSE /\ positions' = (positions \ rows) \cup
                         {SellPosition(position, position.quantity - quantity,
                                       price) :
                            position \in {x \in rows : x.quantity > quantity}}
                  /\ UNCHANGED next_position_id

\* CompetitionTradingService.execute_competition_trade run alone from start
\* to end, its revaluation succeeding: the response of the order
CompetitionResult(order_type, symbol, quantity, quote) ==
  LET stock_data == get_stock_info(quote)
      trade_value == Dec(stock_data * quantity)
      total_cost == DecAdd(trade_value, Brokerage(trade_value))
  IN  IF stock_data = NoQuote THEN "no_price"
      ELSE IF order_type = "buy"
              /\ InsufficientFunds(current_balance, total_cost)
        THEN "insufficient_funds"
      ELSE IF order_type = "sell" /\ CurrentPosition(symbol) < quantity
        THEN "insufficient_shares"
      ELSE "ok"

\* ... and what it commits (lines 60-108)
CompetitionEffect(order_type, symbol, quantity, quote) ==
  LET price == get_stock_info(quote)
      trade_value == Dec(price * quantity)
      brokerage == Brokerage(trade_value)
  IN  IF CompetitionResult(order_type, symbol, quantity, quote) # "ok"
        THEN UNCHANGED <<current_balance, competition_trades>>
        ELSE
          /\ \E stored \in Numeric2(IF order_type = "buy"
                   THEN DecSub(Dec(current_balance),
                               DecAdd(trade_value, brokerage))
                   ELSE DecAdd(Dec(current_balance),
                               DecSub(trade_value, brokerage))) :
               current_balance' = stored
          /\ competition_trades' = Append(competition_trades,
               [symbol |-> symbol, trade_type |-> order_type,
                quantity |-> quantity, price |-> price,
                total_amount |-> price * quantity, created_at |-> now])

\* the same order with the same quote placed on the personal portfolio
\* (worker 1) and on the competition participant (worker 2), each executor
\* running it from start to end
execute_both(order_type, symbol, quantity, quote) ==
  /\ submitted < MaxOrders
  /\ submitted' = submitted + 1
  /\ RobustEffect(order_type, symbol, quantity, quote)
  /\ CompetitionEffect(order_type, symbol, quantity, quote)
  /\ LET personal_result == RobustResult(order_type, symbol, quantity, quote)
         competition_result == CompetitionResult(order_type, symbol, quantity, quote)
         request(service) ==
           [Idle EXCEPT !.service = service, !.order_type = order_type,
              !.symbol = symbol, !.quantity = quantity,
              !.price = get_live_price(quote), !.source = QuoteSource(quote)]
     IN  req' = [req EXCEPT
           ![1] = Done([request("robust") EXCEPT !.cash = cash_balance,
                          !.seen = Len(trades)],
                       personal_result, personal_result = "ok"),
           ![2] = Done([request("competition") EXCEPT
                          !.cash = current_balance,
                          !.seen = Len(competition_trades)],
                       competition_result, competition_result = "ok")]
  /\ UNCHANGED <<account, live_data_service, joins, scheduler, revaluation, stored_values, others, competition, now>>

\* ------------------------------------------------------ specification
\* orders of several clients served concurrently by the routed services
Next ==
  \/ \E r \in Requests, t \in {"buy", "sell"}, s \in Symbols, q \in Quantities,
        quote \in Prices \cup {NoQuote} :
       route_execute_trade(r, t, s, q, quote)
  \/ \E r \in Requests : execute_trade_position(r)
  \/ \E r \in Requests : execute_buy_commit(r)
  \/ \E r \in Requests : execute_sell_commit(r)
  \/ \E r \in Requests, t \in {"buy", "sell"}, s \in Symbols, q \in Quantities,
        quote \in Prices \cup {NoQuote} :
       route_execute_competition_trade(r, t, s, q, quote)
  \/ \E r \in Requests : get_current_position_bought(r)
  \/ \E r \in Requests : get_current_position_sold(r)
  \/ \E r \in Requests, raised \in BOOLEAN :
       execute_competition_trade_commit(r, raised)

Spec == Init /\ [][Next]_vars

\* the same services with orders executed one after another
NextSeq ==
  \/ \E t \in {"buy", "sell"}, s \in Symbols, q \in Quantities,
        quote \in Prices \cup {NoQuote} :
       route_execute_trade(1, t, s, q, quote)
  \/ execute_trade_position(1)
  \/ execute_buy_commit(1)
  \/ execute_sell_commit(1)
  \/ \E t \in {"buy", "sell"}, s \in Symbols, q \in Quantities,
        quote \in Prices \cup {NoQuote} :
       route_execute_competition_trade(1, t, s, q, quote)
  \/ get_current_position_bought(1)
  \/ get_current_position_sold(1)
  \/ \E raised \in BOOLEAN : execute_competition_trade_commit(1, raised)

SpecSeq == Init /\ [][NextSeq]_vars

\* orders executed by the unrouted TradingService
NextLegacy ==
  \E t \in {"buy", "sell"}, s \in LegacySymbols, q \in Quantities,
     cached \in CachedPrices, quote \in Prices \cup {NoQuote} :
    TradingService_execute_trade(t, s, q, cached, quote)

SpecLegacy == Init /\ [][NextLegacy]_vars

\* the personal portfolio with two symbols, orders executed one after
\* another by either personal executor
NextPortfolio ==
  \/ \E t \in {"buy", "sell"}, s \in LegacySymbols, q \in Quantities,
        quote \in Prices \cup {NoQuote} :
       route_execute_trade(1, t, s, q, quote)
  \/ execute_trade_position(1)
  \/ execute_buy_commit(1)
  \/ execute_sell_commit(1)
  \/ \E t \in {"buy", "sell"}, s \in LegacySymbols, q \in Quantities,
        quote \in Prices \cup {NoQuote} :
       TradingService_execute_trade(t, s, q, NoStockInfo, quote)
  \/ \E confirmation, loaded \in BOOLEAN :
       reset_portfolio(1, confirmation, loaded)

SpecPortfolio == Init /\ [][NextPortfolio]_vars

\* the routed services on two symbols, orders executed one after another,
\* and the valuations of the account
NextValuation ==
  \/ \E t \in {"buy", "sell"}, s \in LegacySymbols, q \in Quantities,
        quote \in Prices \cup {NoQuote} :
       route_execute_trade(1, t, s, q, quote)
  \/ execute_trade_position(1)
  \/ execute_buy_commit(1)
  \/ execute_sell_commit(1)
  \/ \E t \in {"buy", "sell"}, s \in LegacySymbols, q \in Quantities,
        quote \in Prices \cup {NoQuote} :
       route_execute_competition_trade(1, t, s, q, quote)
  \/ get_current_position_bought(1)
  \/ get_current_position_sold(1)
  \/ \E raised \in BOOLEAN : execute_competition_trade_commit(1, raised)
  \/ \E quotes \in Quotes : get_portfolio_data(1, quotes)
  \/ \E quotes \in Quotes : calculate_portfolio_value(1, quotes)
  \/ \E quotes \in Quotes : get_competition_portfolio(1, quotes)

SpecValuation == Init /\ [][NextValuation]_vars

\* orders executed one after another while revaluation passes run; a commit waits for the locks of the pass
NextRevaluation ==
  \/ \E t \in {"buy", "sell"}, s \in Symbols, q \in Quantities,
        quote \in Prices \cup {NoQuote} :
       route_execute_trade(1, t, s, q, quote)
  \/ execute_trade_position(1)
  \/ ~Blocked(1) /\ execute_buy_commit(1)
  \/ ~Blocked(1) /\ execute_sell_commit(1)
  \/ update_portfolio_values_select
  \/ \E quotes \in Quotes : update_portfolio_values_update(quotes)
  \/ update_portfolio_values_commit
  \/ \E cached \in CachedPrices, quotes \in Quotes :
       TradingEngine_update_portfolio_values(cached, quotes)

SpecRevaluation == Init /\ [][NextRevaluation]_vars

\* orders on two symbols executed one after another, and the metrics of
\* the portfolio
NextMetrics ==
  \/ \E t \in {"buy", "sell"}, s \in LegacySymbols, q \in Quantities,
        quote \in Prices \cup {NoQuote} :
       route_execute_trade(1, t, s, q, quote)
  \/ execute_trade_position(1)
  \/ execute_buy_commit(1)
  \/ execute_sell_commit(1)
  \/ calculate_real_portfolio_metrics(1)

SpecMetrics == Init /\ [][NextMetrics]_vars

\* the trader and the other users, orders executed one after another
NextIsolation ==
  \/ NextSeq
  \/ \E user_id \in Users : create_user(user_id)
  \/ \E user_id \in Users, t \in {"buy", "sell"}, s \in Symbols,
        q \in Quantities, quote \in Prices \cup {NoQuote} :
       execute_trade_as(user_id, t, s, q, quote)

SpecIsolation == Init /\ [][NextIsolation]_vars

\* all four executors, orders executed one after another
NextExecutors ==
  \/ NextSeq
  \/ NextLegacy
  \/ \E s \in LegacySymbols, q \in Quantities, cached \in CachedPrices,
        quote \in Prices \cup {NoQuote} :
       TradingEngine_execute_buy_order(s, q, cached, quote)
  \/ \E s \in LegacySymbols, q \in Quantities, cached \in CachedPrices,
        quote \in Prices \cup {NoQuote} :
       TradingEngine_execute_sell_order(s, q, cached, quote)

SpecExecutors == Init /\ [][NextExecutors]_vars

\* the routed services with concurrent orders and a clock that advances
NextClock ==
  \/ Next
  \/ tick

SpecClock == Init /\ [][NextClock]_vars

\* a competition created by another user: the trader may join it, trades
\* in it, and the scheduler closes it
Creator == 2

InitCompetition ==
  /\ cash_balance = PortfolioStartingBalance
  /\ positions = {}
  /\ trades = <<>>
  /\ next_position_id = 1
  /\ current_balance = CompetitionStartingBalance
  /\ competition_trades = <<>>
  /\ req = [r \in Requests |-> Idle]
  /\ submitted = 0
  /\ account = "participant"
  /\ competition = [status |-> "active",
                    participants |-> <<Participant(Creator)>>]
  /\ now = 0
  /\ live_data_service = NoLiveData
  /\ joins = [r \in Requests |-> NoJoin]
  /\ scheduler = NoScheduler
  /\ revaluation = NoRevaluation
  /\ stored_values = NoStoredValues
  /\ others = NoOthers

NextCompetition ==
  \/ \E t \in {"buy", "sell"}, s \in Symbols, q \in Quantities,
        quote \in Prices \cup {NoQuote} :
       route_execute_competition_trade(1, t, s, q, quote)
  \/ get_current_position_bought(1)
  \/ get_current_position_sold(1)
  \/ \E raised \in BOOLEAN : execute_competition_trade_commit(1, raised)
  \/ \E user_id \in Users : join_competition(user_id)
  \/ \E scan \in RowOrders(Len(competition.participants)) :
       process_competitions(scan)

SpecCompetition == InitCompetition /\ [][NextCompetition]_vars

\* a competition from its creation (or from a row with the column default
\* "upcoming") to its end: users join, the trader trades, time passes and
\* the scheduler runs its passes
InitLifecycle ==
  /\ cash_balance = PortfolioStartingBalance
  /\ positions = {}
  /\ trades = <<>>
  /\ next_position_id = 1
  /\ current_balance = CompetitionStartingBalance
  /\ competition_trades = <<>>
  /\ req = [r \in Requests |-> Idle]
  /\ submitted = 0
  /\ account = "participant"
  /\ competition \in [status : {"upcoming", "active"},
                       participants : {<<Participant(Creator)>>}]
  /\ now = 0
  /\ live_data_service = NoLiveData
  /\ joins = [r \in Requests |-> NoJoin]
  /\ others = NoOthers
  /\ stored_values = NoStoredValues
  /\ revaluation = NoRevaluation
  /\ scheduler = NoScheduler

NextLifecycle ==
  \/ \E t \in {"buy", "sell"}, s \in Symbols, q \in Quantities,
        quote \in Prices \cup {NoQuote} :
       route_execute_competition_trade(1, t, s, q, quote)
  \/ get_current_position_bought(1)
  \/ get_current_position_sold(1)
  \/ \E raised \in BOOLEAN : execute_competition_trade_commit(1, raised)
  \/ \E user_id \in Users : join_competition(user_id)
  \/ \E scan \in RowOrders(Len(competition.participants)) :
       CompetitionScheduler_process_competitions(scan)
  \/ CompetitionScheduler_commit
  \/ tick

SpecLifecycle == InitLifecycle /\ [][NextLifecycle]_vars

\* _scheduler_loop lines 43-53: the scheduler keeps running its passes
SpecLifecycleFair ==
  /\ SpecLifecycle
  /\ WF_vars(\E scan \in RowOrders(Len(competition.participants)) :
               CompetitionScheduler_process_competitions(scan))
  /\ WF_vars(CompetitionScheduler_commit)

\* join_competition calls of several clients served concurrently, and the
\* scheduler's ending pass
NextJoin ==
  \/ \E j \in Requests, user_id \in Users : join_competition_check(j, user_id)
  \/ \E j \in Requests : join_competition_insert(j)
  \/ \E scan \in RowOrders(Len(competition.participants)) :
       process_competitions(scan)

SpecJoin == InitCompetition /\ [][NextJoin]_vars

\* orders of one client served one at a time by the robust executor, whose
\* price is the answer of the caching price service
NextCache ==
  \/ \E d \in Durations : elapse(d)
  \/ \E quote \in Prices \cup {NoQuote} : LiveDataService_get_live_price(quote)
  \/ \E t \in {"buy", "sell"}, s \in Symbols, q \in Quantities :
       /\ live_data_service.calls = submitted + 1
       /\ route_execute_trade(1, t, s, q, live_data_service.live_data)
  \/ execute_trade_position(1)
  \/ execute_buy_commit(1)
  \/ execute_sell_commit(1)

SpecCache == Init /\ [][NextCache]_vars

\* the same orders given to the personal and the competition executor
NextBoth ==
  \E t \in {"buy", "sell"}, s \in LegacySymbols, q \in Quantities,
     quote \in Prices \cup {NoQuote} :
    execute_both(t, s, q, quote)

SpecBoth == Init /\ [][NextBoth]_vars

\* ================================================================ claims
TotalCost(r) ==
  LET trade_value == Dec(req[r].price * req[r].quantity)
  IN  DecAdd(trade_value, Brokerage(trade_value))

NetProceeds(r) ==
  LET trade_value == Dec(req[r].price * req[r].quantity)
  IN  DecSub(trade_value, Brokerage(trade_value))

Executed(r, order_type) ==
  /\ req[r].pc = "done"
  /\ req[r].result = "ok"
  /\ req[r].order_type = order_type

\* the step commits the order of worker r
Commits(r) == req[r].pc = "commit" /\ req'[r].pc = "done" /\ req'[r].wrote

\* C1: two buy orders of one account that read the account before either
\* committed (same number of committed trade rows seen), each affordable
\* alone and costing more than the cash together, never both execute.
C1_NeverBothCommit ==
  \A r1, r2 \in Requests :
    ~ ( /\ r1 # r2
        /\ Executed(r1, "buy") /\ Executed(r2, "buy")
        /\ req[r1].service = req[r2].service
        /\ req[r1].seen = req[r2].seen
        /\ req[r1].cash = req[r2].cash
        /\ DecLess(Dec(req[r1].cash), DecAdd(TotalCost(r1), TotalCost(r2))) )

\* C2: with orders executed one after another, a committed buy lowers the
\* account's cash by exactly price * quantity + fee and a committed sell
\* raises it by exactly price * quantity - fee.
C2_ExactCashChange ==
  [][\A r \in Requests :
       Commits(r) =>
         LET before == IF req[r].service = "competition"
                         THEN current_balance ELSE cash_balance
             after == IF req[r].service = "competition"
                        THEN current_balance' ELSE cash_balance'
         IN  Dec(after) = IF req[r].order_type = "buy"
                            THEN DecSub(Dec(before), TotalCost(r))
                            ELSE DecAdd(Dec(before), NetProceeds(r))]_vars

\* C3: the cash of the personal portfolio and of the competition
\* participant is never negative, in any interleaving of buys and sells.
C3_CashNeverNegative == cash_balance >= 0 /\ current_balance >= 0

\* C3 witness: a buy was rejected for insufficient funds on an account that
\* has committed a trade, while another order is still in flight.
C3_Witness ==
  /\ \E r \in Requests :
       req[r].pc = "done" /\ req[r].result = "insufficient_funds"
  /\ Len(trades) + Len(competition_trades) > 0
  /\ (cash_balance < PortfolioStartingBalance
      \/ current_balance < CompetitionStartingBalance)

\* C4: every position row has quantity > 0 and no competition holding
\* (bought minus sold) is negative, in any interleaving of orders.
C4_HoldingsPositive ==
  /\ \A p \in positions : p.quantity > 0
  /\ \A symbol \in Symbols : CurrentPosition(symbol) >= 0

RECURSIVE LedgerCash(_)
\* starting balance replayed through rows of table trades
LedgerCash(rows) ==
  IF rows = <<>> THEN PortfolioStartingBalance
  ELSE LET n == Len(rows)
           t == rows[n]
       IN  IF t.trade_type = "buy"
             THEN LedgerCash(SubSeq(rows, 1, n - 1)) - (t.total_amount + t.fees)
             ELSE LedgerCash(SubSeq(rows, 1, n - 1)) + (t.total_amount - t.fees)

RECURSIVE CompetitionLedgerCash(_)
\* starting balance replayed through rows of table competition_trades,
\* the fee of a row being total_amount * 0.0005
CompetitionLedgerCash(rows) ==
  IF rows = <<>> THEN Dec(CompetitionStartingBalance)
  ELSE LET n == Len(rows)
           t == rows[n]
           gross == Dec(t.total_amount)
       IN  IF t.trade_type = "buy"
             THEN DecSub(CompetitionLedgerCash(SubSeq(rows, 1, n - 1)),
                         DecAdd(gross, Brokerage(gross)))
             ELSE DecAdd(CompetitionLedgerCash(SubSeq(rows, 1, n - 1)),
                         DecSub(gross, Brokerage(gross)))

RECURSIVE SumRows(_)
SumRows(rows) ==
  IF rows = {} THEN 0
  ELSE LET p == CHOOSE x \in rows : TRUE
       IN  p.quantity + SumRows(rows \ {p})

\* C5: the account reconciles with its trade rows: cash is the starting
\* balance minus (gross + fee) of its buys plus (gross - fee) of its sells
\* (here even allowing one cent per trade row for the rounding of stored
\* amounts), and the quantity held of a symbol is bought minus sold.
C5_Reconcilable ==
  /\ LET d == cash_balance - LedgerCash(trades)
     IN  d <= Len(trades) /\ -d <= Len(trades)
  /\ LET d == DecSub(Dec(current_balance),
                     CompetitionLedgerCash(competition_trades))
     IN  d.c <= Len(competition_trades) /\ -d.c <= Len(competition_trades) + 1
  /\ \A symbol \in Symbols :
       SumRows(PositionRows(symbol)) =
         SumQuantity(trades, symbol, "buy") - SumQuantity(trades, symbol, "sell")

\* the step ends the request of worker r with a failure response
Fails(r) ==
  /\ req[r].pc # "done" \/ req[r] = Idle
  /\ req'[r] # req[r]
  /\ req'[r].pc = "done"
  /\ req'[r].result # "ok"

\* C6: an order execution that reports failure has changed nothing: the
\* step that ends a request with success = false leaves cash, positions and
\* trade rows as they were (the earlier steps of a request only read).
C6_FailureChangesNothing ==
  [][\A r \in Requests : Fails(r) => ~req'[r].wrote /\ UNCHANGED db]_vars

\* C7: when the price source returns no quote for an order, the order ends
\* at once with the no-price failure and no table is changed.
C7_NoQuoteNoEffect ==
  [][\A r \in Requests :
       (req'[r] # req[r] /\ req'[r].source = "none") =>
         /\ req'[r].pc = "done"
         /\ req'[r].result = "no_price"
         /\ ~req'[r].wrote
         /\ UNCHANGED db]_vars

\* C7 witness: an order got no quote on an account that already holds a
\* committed trade, and was answered with the no-price failure.
C7_Witness ==
  /\ \E r \in Requests :
       req[r].pc = "done" /\ req[r].source = "none"
       /\ req[r].result = "no_price"
  /\ Len(trades) + Len(competition_trades) > 0

\* C8: no trade is committed at a price that no external price source
\* returned.
C8_OnlyQuotedPrices ==
  \A r \in Requests :
    (req[r].pc = "done" /\ req[r].wrote) => req[r].source = "external"

\* shares of the symbol the account holds
Held(service, symbol) ==
  IF service = "competition" THEN CurrentPosition(symbol)
  ELSE SumRows(PositionRows(symbol))

RECURSIVE SumAmount(_, _, _)
SumAmount(rows, symbol, trade_type) ==
  IF rows = <<>> THEN 0
  ELSE (IF Head(rows).symbol = symbol /\ Head(rows).trade_type = trade_type
          THEN Head(rows).total_amount ELSE 0)
       + SumAmount(Tail(rows), symbol, trade_type)

AverageBuyPrice(rows, symbol) ==
  [total_cost |-> SumAmount(rows, symbol, "buy"),
   total_quantity |-> SumQuantity(rows, symbol, "buy")]

\* C10: with orders executed one after another, a committed buy makes the
\* position's quantity old + bought and its average cost the weighted mean
\* (old_avg * old_qty + price * qty) / (old_qty + qty), to the cent where
\* the average is a stored column; a first buy gives the execution price.
C10_WeightedAverageCost ==
  [][\A r \in Requests :
       (Commits(r) /\ req[r].order_type = "buy") =>
         LET q == req[r].quantity
             gross == req[r].price * q
             symbol == req[r].symbol
         IN  IF req[r].service = "competition"
               THEN LET old_qty == CurrentPosition(symbol)
                        old == AverageBuyPrice(competition_trades, symbol)
                        new == AverageBuyPrice(competition_trades', symbol)
                        new_qty ==
                          SumQuantity(competition_trades', symbol, "buy")
                            - SumQuantity(competition_trades', symbol, "sell")
                    IN  /\ new_qty = old_qty + q
                        /\ IF old_qty = 0
                             THEN new.total_cost =
                                    req[r].price * new.total_quantity
                             ELSE new.total_cost * old.total_quantity
                                    * (old_qty + q)
                                  = new.total_quantity
                                    * (old.total_cost * old_qty
                                       + gross * old.total_quantity)
               ELSE \E p \in {x \in positions' : x.symbol = symbol} :
                      IF PositionRows(symbol) = {}
                        THEN p.quantity = q /\ p.average_cost = req[r].price
                        ELSE \E o \in PositionRows(symbol) :
                               /\ p.quantity = o.quantity + q
                               /\ p.average_cost \in
                                    Numeric2Div(o.average_cost * o.quantity
                                                  + gross, o.quantity + q)
    ]_vars

\* C11: a committed personal sell that leaves shares in the position changes
\* nothing of table positions except that row's quantity: the row keeps its
\* average cost, every other row is as before, no row appears or vanishes.
C11_PartialSellFrame ==
  [][\A row \in positions :
       ( /\ Len(trades') = Len(trades) + 1
         /\ trades'[Len(trades')].trade_type = "sell"
         /\ trades'[Len(trades')].symbol = row.symbol
         /\ row.quantity > trades'[Len(trades')].quantity ) =>
         positions' = (positions \ {row}) \cup
           {[row EXCEPT !.quantity = @ - trades'[Len(trades')].quantity]}]_vars

\* C11 witness: two symbols are held and the last trade is a sell that left
\* shares of its symbol, bought at another price, in the position.
C11_Witness ==
  /\ trades # <<>>
  /\ trades[Len(trades)].trade_type = "sell"
  /\ \E p, o \in positions :
       /\ p.symbol = trades[Len(trades)].symbol
       /\ p.average_cost # trades[Len(trades)].price
       /\ o.symbol # p.symbol

\* _get_all_positions lines 223-241 with _get_average_buy_price: the
\* average price the competition executor reports for a held symbol, as
\* the set of cent values nearest to total_cost / total_quantity
CompetitionAverageCost(symbol) ==
  LET average == AverageBuyPrice(competition_trades, symbol)
  IN  Numeric2Div(average.total_cost, average.total_quantity)

\* C12: given the same orders and quotes from the same starting cash, the
\* personal and the competition executor answer each order alike and hold
\* equal cash (here even allowing one cent per trade for the rounding of
\* stored amounts), equal quantity and equal average cost per symbol.
C12_SameTradingLogic ==
  /\ req[1].result = req[2].result
  /\ cash_balance - current_balance <= Len(trades)
  /\ current_balance - cash_balance <= Len(trades)
  /\ \A symbol \in LegacySymbols :
       /\ SumRows(PositionRows(symbol)) = CurrentPosition(symbol)
       /\ \A p \in PositionRows(symbol) :
            p.average_cost \in CompetitionAverageCost(symbol)

\* C13: a competition trade request made while the trader has no
\* participant row ends at once as not-a-participant, and one made while the
\* competition's status is not active ends at once as not-active; neither
\* changes a table.
C13_ParticipantOfActiveCompetition ==
  [][\A r \in Requests :
       ( /\ req[r].pc \in {"idle", "done"}
         /\ req'[r] # req[r]
         /\ req'[r].service = "competition" ) =>
         LET joined == \E i \in 1..Len(competition.participants) :
                         competition.participants[i].user_id = Trader
         IN  /\ ~joined =>
                  /\ req'[r].pc = "done"
                  /\ req'[r].result = "not_participant"
                  /\ ~req'[r].wrote /\ UNCHANGED db
             /\ (joined /\ competition.status # "active") =>
                  /\ req'[r].pc = "done"
                  /\ req'[r].result = "not_active"
                  /\ ~req'[r].wrote /\ UNCHANGED db]_vars

\* C13 witness: the trader joined and traded, the competition was closed,
\* and the trader's next request was rejected as not active.
C13_Witness ==
  /\ req[1].pc = "done" /\ req[1].result = "not_active"
  /\ competition.status = "completed"
  /\ competition_trades # <<>>

AppendOnly(rows, rows_after) ==
  /\ Len(rows_after) >= Len(rows)
  /\ SubSeq(rows_after, 1, Len(rows)) = rows

\* C14: no step modifies or deletes a trade row; the step that ends an order
\* with success appends exactly one trade row, no other step appends any,
\* and the step that ends an order with a rejection or failure appends none.
C14_OneTradeRowPerExecutedOrder ==
  [][/\ AppendOnly(trades, trades')
     /\ AppendOnly(competition_trades, competition_trades')
     /\ LET appended == (Len(trades') - Len(trades))
                          + (Len(competition_trades') - Len(competition_trades))
            ended(r) == req'[r] # req[r] /\ req'[r].pc = "done"
        IN  /\ appended <= 1
            /\ appended = 1 =>
                 \E r \in Requests : ended(r) /\ req'[r].result = "ok"
            /\ \A r \in Requests :
                 ended(r) =>
                   IF req'[r].result = "ok" /\ req'[r].service # "reset"
                     THEN appended = 1 ELSE appended = 0]_vars

\* C15: the trade rows of an account, taken in the order of their commits,
\* have non-decreasing created_at, also with concurrent orders.
C15_CreatedAtFollowsCommitOrder ==
  /\ \A i, j \in 1..Len(trades) :
       i < j => trades[i].created_at <= trades[j].created_at
  /\ \A i, j \in 1..Len(competition_trades) :
       i < j => competition_trades[i].created_at
                  <= competition_trades[j].created_at

\* C16: every committed trade is charged the brokerage 0.0005 * price *
\* quantity, whichever executor ran it: the fee of every personal trade row
\* is that amount, and the participant's balance is the starting balance
\* less gross + fee of every buy plus gross - fee of every sell.
C16_UniformBrokerage ==
  /\ \A i \in 1..Len(trades) :
       Dec(trades[i].fees) = Brokerage(Dec(trades[i].total_amount))
  /\ Dec(current_balance) = CompetitionLedgerCash(competition_trades)

\* C17: the step that closes the competition gives its n participants the
\* ranks 1..n, each once; a participant with a larger balance gets a smaller
\* rank, and of two participants with equal balance the one who joined
\* first gets the smaller rank.
C17_FinalRanking ==
  [][(competition.status # "completed" /\ competition'.status = "completed") =>
       LET rows == competition'.participants
           n == Len(rows)
       IN  /\ \A k \in 1..n : \E i \in 1..n : rows[i].rank = k
           /\ \A i, j \in 1..n :
                /\ ParticipantBalance(rows[i].user_id)
                     > ParticipantBalance(rows[j].user_id)
                     => rows[i].rank < rows[j].rank
                /\ ( /\ ParticipantBalance(rows[i].user_id)
                          = ParticipantBalance(rows[j].user_id)
                     /\ i < j ) => rows[i].rank < rows[j].rank]_vars

\* the valuation requests
ValuationServices ==
  {"get_portfolio_data", "calculate_portfolio_value",
   "get_competition_portfolio"}

\* the quantity the valued account holds of a symbol
HeldQuantity(symbol) ==
  Held(IF account = "portfolio" THEN "robust" ELSE "competition", symbol)

\* price * quantity summed over the held symbols that have a quote
PricedValue(quotes) ==
  LET value[S \in SUBSET LegacySymbols] ==
        IF S = {} THEN 0
        ELSE LET symbol == CHOOSE x \in S : TRUE
             IN  (IF quotes[symbol] = NoQuote THEN 0
                  ELSE quotes[symbol] * HeldQuantity(symbol))
                 + value[S \ {symbol}]
  IN  value[LegacySymbols]

\* the cash of the valued account
AccountCash ==
  IF account = "portfolio" THEN cash_balance ELSE current_balance

\* C19: a valuation returns a stock value equal to the sum of price *
\* quantity over the account's positions that have a price and a total value
\* equal to the account's cash plus that stock value, and it changes neither
\* cash, positions nor trade records.
C19_ValuationIsSumAndPureRead ==
  [][\A r \in Requests :
       (req'[r] # req[r] /\ req'[r].service \in ValuationServices) =>
         LET v == req'[r].valuation
         IN  /\ req'[r].result = "ok"
             /\ v.stock_value = PricedValue(v.quotes)
             /\ v.total_value = AccountCash + v.stock_value
             /\ UNCHANGED db]_vars

\* a valuation has answered for an account that holds both symbols, of
\* which one has a price and the other has none
C19_Witness ==
  \E r \in Requests :
    /\ req[r].pc = "done"
    /\ req[r].service \in ValuationServices
    /\ HeldQuantity("AAPL") > 0
    /\ HeldQuantity("XYZ") > 0
    /\ req[r].valuation.quotes["AAPL"] # NoQuote
    /\ req[r].valuation.quotes["XYZ"] = NoQuote
    /\ req[r].valuation.stock_value > 0

\* C20: a valuation during which a held symbol has no price still answers,
\* and its result marks that position as lacking a price: the position is
\* neither dropped from the result nor counted as 0 without a mark.
C20_MissingPriceIsFlagged ==
  [][\A r \in Requests :
       (req'[r] # req[r] /\ req'[r].service \in ValuationServices) =>
         /\ req'[r].result = "ok"
         /\ \A symbol \in LegacySymbols :
              (HeldQuantity(symbol) > 0 /\ req'[r].valuation.quotes[symbol] = NoQuote)
                => symbol \in req'[r].valuation.stale]_vars

\* the personal account of a user: the portfolio rows, position rows and
\* trade rows that carry the user's id or the id of the user's portfolio
PersonalAccount(user_id) ==
  LET owned == {p \in PortfolioTable : p.user_id = user_id}
      ids == {p.id : p \in owned}
  IN  [portfolios |-> owned,
       positions |-> {x \in PositionTable : x.portfolio_id \in ids},
       trades |-> IF user_id = Trader THEN trades
                  ELSE SelectSeq(others.trades,
                         LAMBDA t : t.portfolio_id \in ids)]

\* the last order was placed by the trader (a request of the trader was
\* answered or advanced) or by another user
OrderOf(user_id) ==
  IF user_id = Trader THEN req' # req
  ELSE others'.caller = user_id /\ req' = req /\ submitted' # submitted

\* C21: a step of an order of one user changes the personal account of
\* that user only; a step of a competition order changes no personal
\* account, a step of a personal order changes neither the participant's
\* balance nor the competition trade records; and no two users ever share
\* a portfolio row.
C21_AccountIsolation ==
  /\ [](\A p, q \in PortfolioTable : (p.id = q.id) <=> (p.user_id = q.user_id))
  /\ [][/\ \A u, v \in Users :
            (OrderOf(u) /\ v # u) => PersonalAccount(v)' = PersonalAccount(v)
        /\ (\E r \in Requests :
              req'[r] # req[r] /\ req'[r].service = "competition")
             => \A u \in Users : PersonalAccount(u)' = PersonalAccount(u)
        /\ (\E u \in Users : PersonalAccount(u)' # PersonalAccount(u))
             => UNCHANGED <<current_balance, competition_trades>>]_vars

\* two other users have registered, one of them and the trader have bought,
\* and the third user's portfolio still has its starting cash
C21_Witness ==
  /\ Cardinality(others.portfolios) = 2
  /\ trades # <<>>
  /\ others.trades # <<>>
  /\ \E p \in others.portfolios :
       /\ p.cash_balance = PortfolioStartingBalance
       /\ p.user_id # others.caller

\* C22: a step of a revaluation pass changes only stored valuation fields:
\* no cash balance, position quantity, average cost or trade record; and a
\* trade that is ready to commit never has to wait for a revaluation pass.
C22_RevaluationIsAdvisory ==
  /\ [][(revaluation' # revaluation \/ stored_values' # stored_values)
          => UNCHANGED db]_vars
  /\ [](\A r \in Requests :
          (req[r].pc = "commit" /\ req[r].service = "robust") => ~Blocked(r))

\* C29: when a revaluation pass commits, the stored total_value of the
\* portfolio equals its cash balance plus the sum of price * quantity over
\* the positions it holds, at the prices of the pass; a portfolio without
\* positions, or without a price in the pass, has total_value = cash.
C29_TotalValueAfterPass ==
  [][(revaluation.pc = "commit" /\ revaluation'.pc = "idle") =>
       stored_values'.total_value
         = cash_balance + PricedValue(revaluation.quotes)]_vars

\* C23: the status of a competition only moves from upcoming to active and
\* from active to completed, a completed competition keeps its status, and
\* a step of the scheduler adds no trade record and changes no
\* participant's balance.
C23_StatusForwardOnly ==
  [][/\ competition'.status # competition.status =>
          <<competition.status, competition'.status>> \in
             {<<"upcoming", "active">>, <<"active", "completed">>}
     /\ scheduler' # scheduler =>
          UNCHANGED <<current_balance, competition_trades, cash_balance,
                      positions, trades>>]_vars

\* the scheduler has ended, and ranked, a competition in which the trader
\* has traded
C23_Witness ==
  /\ competition.status = "completed"
  /\ scheduler.pc = "idle"
  /\ competition_trades # <<>>
  /\ \E i \in 1..Len(competition.participants) :
       competition.participants[i].rank = 1

\* C25: once the competition is completed no competition trade is committed
\* and no participant's balance changes, however a trade request interleaves
\* with the scheduler's ending pass.
C25_NoTradeAfterCompleted ==
  [][competition.status = "completed" =>
       UNCHANGED <<competition_trades, current_balance>>]_vars

\* C26: no competition trade is committed at a time later than the end_date
\* of the competition, whether or not the scheduler has run since.
C26_NoTradeAfterEndDate ==
  [][competition_trades' # competition_trades => now <= end_date]_vars

\* C27: with a scheduler that keeps running its passes, a competition that
\* is upcoming or active when its end_date has passed is eventually
\* completed, and in the step that marks it completed every participant
\* has a rank and the status completed.
C27_EventuallyCompletedAndRanked ==
  /\ (competition.status \in {"upcoming", "active"} /\ end_date <= now)
        ~> (competition.status = "completed")
  /\ [][(competition.status # "completed"
           /\ competition'.status = "completed") =>
          \A i \in 1..Len(competition'.participants) :
            /\ competition'.participants[i].rank > 0
            /\ competition'.participants[i].status = "completed"]_vars

\* the sell rows, and those of them executed above the quantity-weighted
\* average price of the buys of the same symbol that precede them
Sells(rows) == {i \in 1..Len(rows) : rows[i].trade_type = "sell"}

WinningSells(rows) ==
  {i \in Sells(rows) :
     rows[i].price * SumQuantity(SubSeq(rows, 1, i - 1), rows[i].symbol, "buy")
       > SumAmount(SubSeq(rows, 1, i - 1), rows[i].symbol, "buy")}

\* C24: the win rate returned by the metrics operation is the number of
\* sells executed above the running quantity-weighted average buy price of
\* their symbol divided by the number of sells: buys are not counted in
\* the denominator and buys made after a sell do not change its outcome.
C24_WinRate ==
  [][\A r \in Requests :
       (req'[r] # req[r] /\ req'[r].service = "metrics"
          /\ Sells(trades) # {}) =>
         req'[r].metrics.profitable_trades * Cardinality(Sells(trades))
           = Cardinality(WinningSells(trades))
               * req'[r].metrics.total_trades]_vars

\* C28: however join_competition calls interleave, the competition never
\* has more participant rows than max_participants nor two rows of one
\* user; a call of a user who has joined reports already joined and changes
\* nothing; and a new participant starts with the competition's starting
\* balance.
C28_JoinLimits ==
  /\ [](/\ Len(competition.participants) <= MaxParticipants
        /\ \A i, k \in 1..Len(competition.participants) :
             competition.participants[i].user_id
               = competition.participants[k].user_id => i = k)
  /\ [][\A j \in Requests :
          /\ (joins'[j] # joins[j] /\ IsParticipant(joins'[j].user_id)
                /\ joins[j].pc = "idle") =>
               /\ joins'[j].result \in {"already_joined", "not_joinable"}
               /\ UNCHANGED <<competition, current_balance>>
          /\ (joins[j].pc = "insert" /\ joins'[j].result = "newly_joined") =>
               ParticipantBalance(joins[j].user_id)'
                 = CompetitionStartingBalance]_vars

\* C30: get_live_price answers with the cached quote of a symbol when that
\* quote was fetched less than 10 seconds before, and only then, however
\* much time has passed (a day or more included); otherwise it queries the
\* source and answers with no quote when the query fails; an order is never
\* executed at a cached price older than 10 seconds.
C30_CachedQuoteWithinTenSeconds ==
  /\ [][live_data_service'.calls # live_data_service.calls =>
          /\ (live_data_service.price_cache # NoQuote
                /\ live_data_service.now - live_data_service.last_update
                     < CacheSeconds) =>
                /\ live_data_service'.cached
                /\ live_data_service'.live_data
                     = live_data_service.price_cache
          /\ live_data_service'.cached =>
                live_data_service'.age < CacheSeconds
          /\ ~live_data_service'.cached =>
                live_data_service'.live_data = live_data_service'.source]_vars
  /\ [][Len(trades') > Len(trades) =>
          (live_data_service.cached =>
             live_data_service.age < CacheSeconds)]_vars
====
